---- MODULE Spec2Model ----
(***************************************************************************)
(* Model of pft/auth/views.py: the auth blueprint of the personal-finance  *)
(* application.  One action per request handler; every request first runs  *)
(* the before_app_request hook.  The state is the persisted data (users,   *)
(* groups, memberships), the client's session, the clock, the request      *)
(* being served and the response it produced (status and target, flashed   *)
(* messages, emails sent).                                                 *)
(***************************************************************************)
EXTENDS Integers, Sequences, FiniteSets, TLC

\* Bounds of the model.
MaxUsers == 2
MaxTime == 1

VARIABLES users, groups, memberships, nextUserId, nextGroupId,
          session, now, request, resp, flashed, outbox

db == <<users, groups, memberships, nextUserId, nextGroupId>>
vars == <<users, groups, memberships, nextUserId, nextGroupId,
          session, now, request, resp, flashed, outbox>>

----------------------------------------------------------------------------
\* Values

Emails == {"a@x", "b@x"}
Passwords == {"pw1", "pw2"}
NoStr == ""

\* current_user of a request without a logged-in user (AnonymousUserMixin).
Anonymous == 0

\* URLs are sequences of lexemes: the delimiters ":", "/", "?", "#" and the
\* runs of other characters between them.  <<>> is a missing (None) or
\* empty `next`: both are falsy in `not next_page`.
Nexts ==
    { <<>>,
      <<"/", "accounts">>,
      <<"http", ":", "/", "/", "evil.example", "/", "x">>,
      <<"/", "/", "evil.example", "/", "x">>,
      <<"https", ":", "evil.example", "/", "x">> }

\* Endpoints are sequences of dotted name parts; <<>> is request.endpoint
\* of a request that matched no route (None).
NoEndpoint == <<>>
AuthEndpoint(name) == <<"auth", name>>
HomePage == <<"web", "home_page">>
OtherEndpoints == { NoEndpoint, <<"static">>, HomePage }

\* request.blueprint: the endpoint up to its last dot, None without a dot.
blueprint(endpoint) ==
    IF Len(endpoint) > 1 THEN SubSeq(endpoint, 1, Len(endpoint) - 1) ELSE <<>>

\* Responses.
redirect(location) == [status |-> "redirect", target |-> location]
render_template(name) == [status |-> "render", target |-> <<"template", name>>]
url_for(endpoint) == <<"url_for">> \o endpoint
Unauthorized == [status |-> "unauthorized", target |-> <<>>]
ServerError == [status |-> "error", target |-> <<>>]
PassThrough(endpoint) == [status |-> "view", target |-> endpoint]
NoResponse == [status |-> "none", target |-> <<>>]

----------------------------------------------------------------------------
\* werkzeug.urls.url_parse, as far as scheme and netloc.

Digits == {"80", "443"}

\* Least index i >= from with url[i] in chars, 0 when there is none.
Find(url, chars, from) ==
    LET hits == {i \in from..Len(url) : url[i] \in chars}
    IN IF hits = {} THEN 0 ELSE CHOOSE i \in hits : \A j \in hits : i <= j

Tail_from(url, i) == SubSeq(url, i, Len(url))

url_parse(url) ==
    LET i == Find(url, {":"}, 1)
        rest == Tail_from(url, i + 1)
        isScheme ==
            /\ i > 1
            /\ \A k \in 1..(i - 1) : url[k] \notin {":", "/", "?", "#"}
            /\ (rest = <<>> \/ \E k \in 1..Len(rest) : rest[k] \notin Digits)
        scheme == IF isScheme THEN url[1] ELSE NoStr
        u1 == IF isScheme THEN rest ELSE url
        hasNetloc == Len(u1) >= 2 /\ u1[1] = "/" /\ u1[2] = "/"
        d == Find(u1, {"/", "?", "#"}, 3)
        delim == IF d = 0 THEN Len(u1) + 1 ELSE d
    IN [scheme |-> scheme,
        netloc |-> IF hasNetloc THEN SubSeq(u1, 3, delim - 1) ELSE <<>>,
        path |-> IF hasNetloc THEN Tail_from(u1, delim) ELSE u1]

----------------------------------------------------------------------------
\* The data-model layer (pft/database.py), at the interface the views use.

\* generate_password_hash / check_password_hash
Hash(password) == <<"hash", password>>

verify_password(u, password) == users[u].password_hash = Hash(password)

\* User.query.filter_by(email=...).first(); Anonymous stands for None.
filter_by_email(email) ==
    IF \E u \in DOMAIN users : users[u].email = email
    THEN CHOOSE u \in DOMAIN users : users[u].email = email
    ELSE Anonymous

\* Signed, timestamped tokens.  The clock ticks in units of the token
\* lifetime: a token is expired once the clock has moved past its issue time.
generate_confirmation_token(u) ==
    [email |-> NoStr, kind |-> "confirm", id |-> u, iat |-> now]
generate_reset_token(u) ==
    [email |-> NoStr, kind |-> "reset", id |-> u, iat |-> now]
generate_email_change_token(u, new_email) ==
    [email |-> new_email, kind |-> "change_email", id |-> u, iat |-> now]
Garbage == [email |-> NoStr, kind |-> "garbage", id |-> Anonymous, iat |-> 0]

\* The tokens a client can present to a view that consumes tokens of `kind`:
\* every token of that kind the application has been able to sign so far
\* (for any user id handed out, at any time up to now), a fresh token signed
\* for another purpose, and a string the application never signed.
SignedTokens(kind) ==
    [email : IF kind = "change_email" THEN Emails ELSE {NoStr},
     kind : {kind}, id : 1..(nextUserId - 1), iat : 0..now]

OtherPurpose(kind) == IF kind = "confirm" THEN "reset" ELSE "confirm"

Tokens(kind) ==
    {Garbage}
    \cup SignedTokens(kind)
    \cup {t \in SignedTokens(OtherPurpose(kind)) : t.iat = now}

\* Serializer.loads succeeds: the signature is good and the token is fresh.
loads(token) == token.kind # "garbage" /\ ~(now > token.iat)

\* user.confirm(token) -> bool
User_confirm(u, token) ==
    loads(token) /\ token.kind = "confirm" /\ token.id = u

\* User.reset_password(token, new_password) -> bool
User_reset_password(token) ==
    loads(token) /\ token.kind = "reset" /\ token.id \in DOMAIN users

\* user.change_email(token) -> bool
User_change_email(u, token) ==
    /\ loads(token) /\ token.kind = "change_email" /\ token.id = u
    /\ filter_by_email(token.email) = Anonymous

\* flask_login: the user the session names, if it still exists.
current_user ==
    IF session.user_id \in DOMAIN users THEN session.user_id ELSE Anonymous

is_authenticated == current_user # Anonymous

\* Deleting a user cascades to the memberships and the personal group.
CascadeGroups(u) == {m.group : m \in {x \in memberships : x.user = u}}

send_email(to, subject, template, token) ==
    [token |-> token, to |-> to, subject |-> subject, template |-> template]

----------------------------------------------------------------------------
\* Requests

Req(endpoint, method) ==
    [endpoint |-> endpoint, password |-> NoStr, email |-> NoStr,
     token |-> Garbage, method |-> method, valid |-> FALSE,
     old_password |-> NoStr, next |-> <<>>, yes |-> FALSE, no |-> FALSE]

NoRequest == Req(NoEndpoint, "none")

\* form.validate_on_submit()
validate_on_submit(req) == req.method = "POST" /\ req.valid

Respond(r, messages, mail) ==
    /\ resp' = r
    /\ flashed' = messages
    /\ outbox' = mail

Init ==
    /\ users = <<>>
    /\ groups = <<>>
    /\ memberships = {}
    /\ nextUserId = 1
    /\ nextGroupId = 1
    /\ session = [user_id |-> Anonymous, login_time |-> <<>>]
    /\ now = 0
    /\ request = NoRequest
    /\ resp = NoResponse
    /\ flashed = <<>>
    /\ outbox = <<>>

----------------------------------------------------------------------------
\* before_app_request hook and the wrappers every view runs under

\* The hook without its test for static files.
before_request_static_too(req) ==
    /\ session.user_id \in DOMAIN users
    /\ ~users[session.user_id].confirmed
    /\ req.endpoint # <<>>
    /\ blueprint(req.endpoint) # <<"auth">>

\* TRUE when the hook answers the request itself, with the redirect to
\* auth.unconfirmed.
before_request(req) ==
    /\ is_authenticated
    /\ ~users[current_user].confirmed
    /\ req.endpoint # NoEndpoint
    /\ blueprint(req.endpoint) # <<"auth">>
    /\ req.endpoint # <<"static">>

\* A request: the hook first, the view only when the hook returns None.
\* Requests are served one at a time.
Serve(req, View) ==
    /\ request = NoRequest
    /\ request' = req
    /\ UNCHANGED now
    /\ IF before_request(req)
       THEN /\ Respond(redirect(url_for(AuthEndpoint("unconfirmed"))), <<>>, <<>>)
            /\ UNCHANGED <<db, session>>
       ELSE View

\* @login_required: an anonymous caller never reaches the view.
login_required(View) ==
    IF is_authenticated
    THEN View
    ELSE /\ Respond(Unauthorized, <<>>, <<>>)
         /\ UNCHANGED <<db, session>>

RedirectHome == redirect(url_for(HomePage))

\* A view that only answers.
Answer(r, messages, mail) ==
    /\ Respond(r, messages, mail)
    /\ UNCHANGED <<db, session>>

\* db.session.commit() of a change to the users table only.
CommitUsers(new_users) ==
    /\ users' = new_users
    /\ UNCHANGED <<groups, memberships, nextUserId, nextGroupId>>

----------------------------------------------------------------------------
\* Views outside the auth blueprint, static files, unmatched URLs

other(req) ==
    Serve(req, Answer(PassThrough(req.endpoint), <<>>, <<>>))

unconfirmed(req) ==
    Serve(req,
        IF ~is_authenticated \/ users[current_user].confirmed
        THEN Answer(RedirectHome, <<>>, <<>>)
        ELSE Answer(render_template("auth/unconfirmed.html"), <<>>, <<>>))

resend_confirmation(req) ==
    Serve(req, login_required(
        Answer(RedirectHome,
               <<"A new confirmation email has been sent to you by email.">>,
               <<send_email(users[current_user].email, "Confirm Your Account",
                            "auth/mail/confirm",
                            generate_confirmation_token(current_user))>>)))

----------------------------------------------------------------------------
\* login, logout

\* The credentials test without the password.
login_accepts_known_email(email, password) ==
    filter_by_email(email) # Anonymous

\* user is not None and user.verify_password(form.password.data)
login_accepts(email, password) ==
    /\ filter_by_email(email) # Anonymous
    /\ verify_password(filter_by_email(email), password)

\* The redirect target after login_user.
login_next_page(next_page) ==
    IF next_page = <<>> \/ url_parse(next_page).netloc # <<>>
    THEN url_for(HomePage)
    ELSE next_page

\* A view that forgets the timestamp.
login_fallthrough_forgets(s) == s

\* The session after the view fell through to the form.
login_fallthrough_session(s) == [s EXCEPT !.login_time = <<now>>]

login(req) ==
    Serve(req,
        IF is_authenticated
        THEN Answer(RedirectHome, <<>>, <<>>)
        ELSE IF validate_on_submit(req) /\ login_accepts(req.email, req.password)
        THEN /\ session' = [session EXCEPT !.user_id = filter_by_email(req.email)]
             /\ Respond(redirect(login_next_page(req.next)), <<>>, <<>>)
             /\ UNCHANGED db
        ELSE /\ session' = login_fallthrough_session(session)
             /\ Respond(render_template("auth/login.html"),
                        IF validate_on_submit(req)
                        THEN <<"Invalid email or password.">> ELSE <<>>,
                        <<>>)
             /\ UNCHANGED db)

logout(req) ==
    Serve(req,
        /\ session' = [session EXCEPT !.user_id = Anonymous]
        /\ Respond(redirect(url_for(AuthEndpoint("login"))),
                   <<"You have been logged out.">>, <<>>)
        /\ UNCHANGED db)

----------------------------------------------------------------------------
\* register

new_user(email, password) ==
    [password_hash |-> Hash(password), email |-> email, confirmed |-> FALSE]

\* Group(name='Group:' + email), after add_categories_accounts().
new_group(email) == [name |-> <<"Group:", email>>, scaffold |-> TRUE]

\* A membership left inactive.
new_membership_inactive(u, g) == [group |-> g, user |-> u, active |-> FALSE]

new_membership(u, g) == [group |-> g, user |-> u, active |-> TRUE]

\* The commit fails on the unique constraint of User.email: the form's own
\* check of the email and the commit are not one step.
register_commits(email) == filter_by_email(email) = Anonymous

register_mail(u, email) ==
    <<send_email(email, "Confirm Your Account", "auth/mail/confirm",
                 generate_confirmation_token(u))>>

register(req) ==
    Serve(req,
        IF is_authenticated
        THEN Answer(RedirectHome, <<>>, <<>>)
        ELSE IF ~validate_on_submit(req)
        THEN Answer(render_template("auth/register.html"), <<>>, <<>>)
        ELSE IF ~register_commits(req.email)
        THEN Answer(ServerError, <<>>, <<>>)
        ELSE /\ users' = users @@ (nextUserId :> new_user(req.email, req.password))
             /\ groups' = groups @@ (nextGroupId :> new_group(req.email))
             /\ memberships' =
                    memberships \cup {new_membership(nextUserId, nextGroupId)}
             /\ nextUserId' = nextUserId + 1
             /\ nextGroupId' = nextGroupId + 1
             /\ Respond(redirect(url_for(AuthEndpoint("login"))),
                        <<"A confirmation email has been sent to you by email.">>,
                        register_mail(nextUserId, req.email))
             /\ UNCHANGED session)

----------------------------------------------------------------------------
\* confirm

\* Confirmation without looking at the token.
confirm_applies_unchecked(u, token) == ~users[u].confirmed

\* The token is applied: the caller is unconfirmed and user.confirm(token)
\* returns True.
confirm_applies(u, token) == ~users[u].confirmed /\ User_confirm(u, token)

confirm(req) ==
    Serve(req, login_required(
        IF users[current_user].confirmed
        THEN Answer(RedirectHome, <<>>, <<>>)
        ELSE IF confirm_applies(current_user, req.token)
        THEN /\ CommitUsers([users EXCEPT ![current_user].confirmed = TRUE])
             /\ Respond(RedirectHome,
                        <<"You have confirmed your account. Thanks!">>, <<>>)
             /\ UNCHANGED session
        ELSE Answer(RedirectHome,
                    <<"The confirmation link is invalid or has expired.">>,
                    <<>>)))

----------------------------------------------------------------------------
\* change_password

\* A change that skips the old password.
change_password_accepts_any(u, old_password) == TRUE

change_password_accepts(u, old_password) == verify_password(u, old_password)

change_password(req) ==
    Serve(req, login_required(
        IF ~validate_on_submit(req)
        THEN Answer(render_template("auth/change_password.html"), <<>>, <<>>)
        ELSE IF change_password_accepts(current_user, req.old_password)
        THEN /\ CommitUsers([users EXCEPT
                    ![current_user].password_hash = Hash(req.password)])
             /\ Respond(RedirectHome, <<"Your password has been updated.">>, <<>>)
             /\ UNCHANGED session
        ELSE Answer(render_template("auth/change_password.html"),
                    <<"Invalid password.">>, <<>>)))

----------------------------------------------------------------------------
\* password_reset_request, password_reset

password_reset_request_mail(user) ==
    IF user # Anonymous
    THEN <<send_email(users[user].email, "Reset Your Password",
                      "auth/mail/reset_password", generate_reset_token(user))>>
    ELSE <<>>

\* The message only for a known address.
password_reset_request_flash_known(user) ==
    IF user # Anonymous
    THEN <<"An email with instructions to reset your password has been sent to you.">>
    ELSE <<>>

password_reset_request_flash(user) ==
    <<"An email with instructions to reset your password has been sent to you.">>

password_reset_request(req) ==
    Serve(req,
        IF is_authenticated
        THEN Answer(RedirectHome, <<>>, <<>>)
        ELSE IF ~validate_on_submit(req)
        THEN Answer(render_template("auth/reset_password.html"), <<>>, <<>>)
        ELSE Answer(redirect(url_for(AuthEndpoint("login"))),
                    password_reset_request_flash(filter_by_email(req.email)),
                    password_reset_request_mail(filter_by_email(req.email))))

\* The success message flashed before the answer is looked at.
password_reset_flash_always(applied) == <<"Your password has been updated.">>

\* What the view flashes once User.reset_password has answered.
password_reset_flash(applied) ==
    IF applied THEN <<"Your password has been updated.">> ELSE <<>>

password_reset(req) ==
    Serve(req,
        IF is_authenticated
        THEN Answer(RedirectHome, <<>>, <<>>)
        ELSE IF ~validate_on_submit(req)
        THEN Answer(render_template("auth/reset_password.html"), <<>>, <<>>)
        ELSE IF User_reset_password(req.token)
        THEN /\ CommitUsers([users EXCEPT
                    ![req.token.id].password_hash = Hash(req.password)])
             /\ Respond(redirect(url_for(AuthEndpoint("login"))),
                        password_reset_flash(TRUE), <<>>)
             /\ UNCHANGED session
        ELSE Answer(RedirectHome, password_reset_flash(FALSE), <<>>))

----------------------------------------------------------------------------
\* change_email_request, change_email

change_email_request(req) ==
    Serve(req, login_required(
        IF ~validate_on_submit(req)
        THEN Answer(render_template("auth/change_email.html"), <<>>, <<>>)
        ELSE IF verify_password(current_user, req.password)
        THEN Answer(RedirectHome,
                    <<"An email with instructions to confirm your new email address has been sent to you.">>,
                    <<send_email(req.email, "Confirm your email address",
                                 "auth/mail/change_email",
                                 generate_email_change_token(current_user,
                                                             req.email))>>)
        ELSE Answer(render_template("auth/change_email.html"),
                    <<"Invalid email or password.">>, <<>>)))

\* The token is applied: user.change_email(token) returns True.
change_email_applies(u, token) == User_change_email(u, token)

change_email(req) ==
    Serve(req, login_required(
        IF change_email_applies(current_user, req.token)
        THEN /\ CommitUsers([users EXCEPT ![current_user].email = req.token.email])
             /\ Respond(RedirectHome,
                        <<"Your email address has been updated.">>, <<>>)
             /\ UNCHANGED session
        ELSE Answer(RedirectHome, <<"Invalid request.">>, <<>>)))

----------------------------------------------------------------------------
\* delete_user

\* Either button deletes.
delete_user_deletes_either(req) == req.yes \/ req.no

\* if form.yes.data: ... elif form.no.data: pass
delete_user_deletes(req) == req.yes

delete_user(req) ==
    Serve(req, login_required(
        IF ~validate_on_submit(req)
        THEN Answer(render_template("auth/delete_user.html"), <<>>, <<>>)
        ELSE IF delete_user_deletes(req)
        THEN /\ users' = [u \in DOMAIN users \ {current_user} |-> users[u]]
             /\ memberships' = {m \in memberships : m.user # current_user}
             /\ groups' = [g \in DOMAIN groups \ CascadeGroups(current_user)
                             |-> groups[g]]
             /\ UNCHANGED <<nextUserId, nextGroupId, session>>
             /\ Respond(RedirectHome, <<>>, <<>>)
        ELSE Answer(RedirectHome, <<>>, <<>>)))

----------------------------------------------------------------------------
\* The requests a client can send

Get(name) == Req(AuthEndpoint(name), "GET")
Post(name) == Req(AuthEndpoint(name), "POST")
\* A POST the form layer accepts.
Valid(name) == [Post(name) EXCEPT !.valid = TRUE]
\* The requests that carry no form data the view reads.
Plain(name) == {Get(name), Post(name)}

LoginRequests ==
    Plain("login")
    \cup {[Valid("login") EXCEPT !.email = e, !.password = p, !.next = n] :
            e \in Emails, p \in Passwords, n \in Nexts}

RegisterRequests ==
    Plain("register")
    \cup {[Valid("register") EXCEPT !.email = e, !.password = p] :
            e \in Emails, p \in Passwords}

ConfirmRequests ==
    {[Get("confirm") EXCEPT !.token = t] : t \in Tokens("confirm")}

ChangePasswordRequests ==
    Plain("change_password")
    \cup {[Valid("change_password") EXCEPT !.old_password = o, !.password = p] :
            o \in Passwords, p \in Passwords}

PasswordResetRequestRequests ==
    Plain("password_reset_request")
    \cup {[Valid("password_reset_request") EXCEPT !.email = e] : e \in Emails}

PasswordResetRequests ==
    Plain("password_reset")
    \cup {[Valid("password_reset") EXCEPT !.token = t, !.password = p] :
            t \in Tokens("reset"), p \in Passwords}

ChangeEmailRequestRequests ==
    Plain("change_email_request")
    \cup {[Valid("change_email_request") EXCEPT !.email = e, !.password = p] :
            e \in Emails, p \in Passwords}

ChangeEmailRequests ==
    {[Get("change_email") EXCEPT !.token = t] : t \in Tokens("change_email")}

DeleteUserRequests ==
    Plain("delete_user")
    \cup {[Valid("delete_user") EXCEPT !.yes = y, !.no = n] :
            y \in BOOLEAN, n \in BOOLEAN}

\* The response is sent and the request context is popped.
teardown ==
    /\ request # NoRequest
    /\ request' = NoRequest
    /\ Respond(NoResponse, <<>>, <<>>)
    /\ UNCHANGED <<db, session, now>>

\* Time passes between requests.
Tick ==
    /\ request = NoRequest
    /\ now < MaxTime
    /\ now' = now + 1
    /\ UNCHANGED <<db, session, request, resp, flashed, outbox>>

Next ==
    \/ Tick
    \/ teardown
    \/ \E ep \in OtherEndpoints : other(Req(ep, "GET"))
    \/ unconfirmed(Get("unconfirmed"))
    \/ resend_confirmation(Get("resend_confirmation"))
    \/ \E req \in LoginRequests : login(req)
    \/ logout(Get("logout"))
    \/ \E req \in RegisterRequests :
          /\ validate_on_submit(req) => nextUserId <= MaxUsers
          /\ register(req)
    \/ \E req \in ConfirmRequests : confirm(req)
    \/ \E req \in ChangePasswordRequests : change_password(req)
    \/ \E req \in PasswordResetRequestRequests : password_reset_request(req)
    \/ \E req \in PasswordResetRequests : password_reset(req)
    \/ \E req \in ChangeEmailRequestRequests : change_email_request(req)
    \/ \E req \in ChangeEmailRequests : change_email(req)
    \/ \E req \in DeleteUserRequests : delete_user(req)

Spec == Init /\ [][Next]_vars

----------------------------------------------------------------------------
\* Properties.  Each is a property of the step that serves a request: the
\* unprimed variables are the state the request found, request' is the
\* request, and the other primed variables are what it left behind.

Serving(name) == request' # NoRequest /\ request'.endpoint = AuthEndpoint(name)

ToUnconfirmed == redirect(url_for(AuthEndpoint("unconfirmed")))

\* C1 as stated: the hook redirects to 'unconfirmed' every request of an
\* authenticated, unconfirmed caller whose endpoint is outside the auth
\* blueprint and is not the static endpoint, and never redirects a request
\* of an unauthenticated or confirmed caller, which reaches its view.
C1_GateAsStated ==
    [][request' # NoRequest =>
        /\ (/\ is_authenticated
            /\ ~users[current_user].confirmed
            /\ blueprint(request'.endpoint) # <<"auth">>
            /\ request'.endpoint # <<"static">>)
           => (resp' = ToUnconfirmed /\ UNCHANGED <<db, session>>)
        /\ (~is_authenticated \/ users[current_user].confirmed)
           => /\ resp' # ToUnconfirmed
              /\ request'.endpoint \in OtherEndpoints
                 => resp' = PassThrough(request'.endpoint)]_vars

\* C1, amended: the hook redirects to 'unconfirmed' exactly the requests that
\* resolved to an endpoint (request.endpoint is set), outside the auth
\* blueprint and other than 'static', of an authenticated, unconfirmed
\* caller; it changes nothing; every other request reaches its view.
C1_Gate ==
    [][request' # NoRequest =>
        IF /\ is_authenticated
           /\ ~users[current_user].confirmed
           /\ request'.endpoint # NoEndpoint
           /\ blueprint(request'.endpoint) # <<"auth">>
           /\ request'.endpoint # <<"static">>
        THEN resp' = ToUnconfirmed /\ UNCHANGED <<db, session>>
        ELSE /\ resp' # ToUnconfirmed
             /\ request'.endpoint \in OtherEndpoints
                => resp' = PassThrough(request'.endpoint)]_vars

\* C1 witness: an unconfirmed, logged-in user asked for the home page and
\* was sent to 'unconfirmed'.
C1_Witness ==
    /\ request.endpoint = HomePage
    /\ is_authenticated
    /\ ~users[current_user].confirmed
    /\ resp = ToUnconfirmed

\* C2: a valid login POST of an anonymous caller logs in the user whose email
\* and password were submitted; with an unknown email or a wrong password
\* the session stays anonymous, 'Invalid email or password.' is flashed and
\* the form is rendered again.
C2_Login ==
    [][(Serving("login") /\ validate_on_submit(request') /\ ~is_authenticated) =>
        IF \E u \in DOMAIN users :
              /\ users[u].email = request'.email
              /\ users[u].password_hash = Hash(request'.password)
        THEN /\ is_authenticated'
             /\ users[current_user'].email = request'.email
             /\ UNCHANGED db
        ELSE /\ ~is_authenticated'
             /\ session'.user_id = session.user_id
             /\ flashed' = <<"Invalid email or password.">>
             /\ resp' = render_template("auth/login.html")
             /\ UNCHANGED db]_vars

\* C2 witness: a login with the right password succeeded.
C2_Witness ==
    /\ request.endpoint = AuthEndpoint("login")
    /\ validate_on_submit(request)
    /\ is_authenticated
    /\ users[current_user].email = request.email
    /\ users[current_user].password_hash = Hash(request.password)
    /\ resp.status = "redirect"

\* A reference that resolves inside the application's own origin: a relative
\* reference, with neither a scheme nor a network location of its own.
SameOrigin(url) ==
    url_parse(url).scheme = NoStr /\ url_parse(url).netloc = <<>>

\* C3 as stated: after a successful login the redirect goes to `next` when
\* it is present and its network location is empty, and home otherwise, and
\* it never points to another origin.
C3_LoginRedirect ==
    [][(/\ Serving("login") /\ validate_on_submit(request') /\ ~is_authenticated
        /\ is_authenticated') =>
        /\ resp'.status = "redirect"
        /\ resp'.target =
              IF request'.next # <<>> /\ url_parse(request'.next).netloc = <<>>
              THEN request'.next
              ELSE url_for(HomePage)
        /\ request'.next = <<"/", "accounts">>
              => resp'.target = <<"/", "accounts">>
        /\ SameOrigin(resp'.target)]_vars

\* Every user has exactly one membership; it is active and links a group
\* that exists.
PersonalGroup ==
    \A u \in DOMAIN users :
        /\ Cardinality({m \in memberships : m.user = u}) = 1
        /\ \A m \in memberships :
              m.user = u => (m.active /\ m.group \in DOMAIN groups)

\* C4: a valid register POST of an anonymous caller adds exactly one User,
\* one Group named 'Group:' + email and one active Membership linking them,
\* and sends exactly one 'Confirm Your Account' email to the new user; when
\* the commit fails nothing is added and nothing is sent.  At all times every
\* user has exactly one personal group, through an active membership.
C4_Register ==
    [][/\ (Serving("register") /\ validate_on_submit(request')
             /\ ~is_authenticated) =>
          IF \E u \in DOMAIN users : users[u].email = request'.email
          THEN UNCHANGED db /\ outbox' = <<>>
          ELSE \E u \in DOMAIN users' \ DOMAIN users,
                  g \in DOMAIN groups' \ DOMAIN groups :
                  /\ DOMAIN users' = DOMAIN users \cup {u}
                  /\ \A v \in DOMAIN users : users'[v] = users[v]
                  /\ users'[u].email = request'.email
                  /\ users'[u].password_hash = Hash(request'.password)
                  /\ ~users'[u].confirmed
                  /\ DOMAIN groups' = DOMAIN groups \cup {g}
                  /\ \A h \in DOMAIN groups : groups'[h] = groups[h]
                  /\ groups'[g].name = <<"Group:", request'.email>>
                  /\ memberships' = memberships
                        \cup {[group |-> g, user |-> u, active |-> TRUE]}
                  /\ \A m \in memberships : m.user # u /\ m.group # g
                  /\ Len(outbox') = 1
                  /\ outbox'[1].to = request'.email
                  /\ outbox'[1].subject = "Confirm Your Account"
                  /\ outbox'[1].token.kind = "confirm"
                  /\ outbox'[1].token.id = u
       /\ PersonalGroup']_vars

\* C4 witness: a registration went through while another user existed.
C4_Witness ==
    /\ request.endpoint = AuthEndpoint("register")
    /\ validate_on_submit(request)
    /\ Len(outbox) = 1
    /\ Cardinality(DOMAIN users) = 2
    /\ \E u \in DOMAIN users :
          /\ users[u].email = request.email
          /\ \E m \in memberships : m.user = u /\ m.active

\* C5: confirm(token) of an authenticated, unconfirmed user with a fresh
\* token issued to that user for confirmation sets confirmed and changes
\* nothing else; with any other token it changes nothing and flashes the
\* error; an already confirmed caller is redirected home and no token is
\* applied.  No step turns a confirmed user back into an unconfirmed one.
C5_Confirm ==
    [][/\ (Serving("confirm") /\ is_authenticated) =>
          IF users[current_user].confirmed
          THEN UNCHANGED db /\ resp' = RedirectHome /\ flashed' = <<>>
          ELSE IF /\ request'.token.kind = "confirm"
                  /\ request'.token.id = current_user
                  /\ request'.token.iat = now
               THEN /\ users' = [users EXCEPT ![current_user].confirmed = TRUE]
                    /\ UNCHANGED <<groups, memberships, nextUserId, nextGroupId>>
                    /\ resp' = RedirectHome
               ELSE /\ UNCHANGED db
                    /\ flashed' =
                          <<"The confirmation link is invalid or has expired.">>
                    /\ resp' = RedirectHome
       /\ \A u \in DOMAIN users \cap DOMAIN users' :
             users[u].confirmed => users'[u].confirmed]_vars

\* C5 witness: a user has just confirmed the account with a token.
C5_Witness ==
    /\ request.endpoint = AuthEndpoint("confirm")
    /\ request.token.id = current_user
    /\ is_authenticated
    /\ users[current_user].confirmed
    /\ flashed = <<"You have confirmed your account. Thanks!">>

\* C6: the answer to a valid password_reset_request POST of an anonymous
\* caller is the same message and the same redirect to the login page
\* whether or not the email belongs to a user; only the reset email, sent
\* exactly when the user exists, differs.
C6_ResetRequest ==
    [][(Serving("password_reset_request") /\ validate_on_submit(request')
          /\ ~is_authenticated) =>
        /\ resp' = redirect(url_for(AuthEndpoint("login")))
        /\ flashed' = <<"An email with instructions to reset your password has been sent to you.">>
        /\ UNCHANGED <<db, session>>
        /\ IF \E u \in DOMAIN users : users[u].email = request'.email
           THEN /\ Len(outbox') = 1
                /\ outbox'[1].to = request'.email
                /\ outbox'[1].token.kind = "reset"
                /\ users[outbox'[1].token.id].email = request'.email
           ELSE outbox' = <<>>]_vars

\* C6 witness: a reset was requested for an address nobody has, while some
\* other address is registered.
C6_Witness ==
    /\ request.endpoint = AuthEndpoint("password_reset_request")
    /\ validate_on_submit(request)
    /\ ~is_authenticated
    /\ users # <<>>
    /\ \A u \in DOMAIN users : users[u].email # request.email
    /\ flashed # <<>>
    /\ outbox = <<>>

\* C7: delete_user on a valid POST with the affirmative choice removes the
\* current user, the user's memberships and their groups, and nothing else;
\* with the negative choice, on GET and on an invalid POST nothing persisted
\* changes.  Every valid POST is answered with the redirect home.
C7_DeleteUser ==
    [][(Serving("delete_user") /\ is_authenticated) =>
        /\ IF validate_on_submit(request') /\ request'.yes
           THEN /\ DOMAIN users' = DOMAIN users \ {current_user}
                /\ \A u \in DOMAIN users' : users'[u] = users[u]
                /\ memberships' = {m \in memberships : m.user # current_user}
                /\ \A m \in memberships :
                      m.user = current_user => m.group \notin DOMAIN groups'
                /\ ~is_authenticated'
           ELSE UNCHANGED db
        /\ validate_on_submit(request') => resp' = RedirectHome]_vars

\* C7 witness: a user has just deleted the account.
C7_Witness ==
    /\ request.endpoint = AuthEndpoint("delete_user")
    /\ request.yes
    /\ session.user_id # Anonymous
    /\ session.user_id \notin DOMAIN users
    /\ resp = RedirectHome

\* C8: change_password on a valid POST with a wrong old password changes
\* nothing persisted, flashes 'Invalid password.' and renders the form again;
\* the stored hash is replaced, by the hash of the new password, only when
\* the old password verifies.
C8_ChangePassword ==
    [][(Serving("change_password") /\ is_authenticated) =>
        IF /\ validate_on_submit(request')
           /\ users[current_user].password_hash = Hash(request'.old_password)
        THEN /\ users' = [users EXCEPT ![current_user].password_hash =
                                           Hash(request'.password)]
             /\ UNCHANGED <<groups, memberships, nextUserId, nextGroupId>>
        ELSE /\ UNCHANGED <<db, session>>
             /\ validate_on_submit(request') =>
                   /\ flashed' = <<"Invalid password.">>
                   /\ resp' = render_template("auth/change_password.html")]_vars

\* C8 witness: a change with a wrong old password was refused.
C8_Witness ==
    /\ request.endpoint = AuthEndpoint("change_password")
    /\ validate_on_submit(request)
    /\ is_authenticated
    /\ users[current_user].password_hash # Hash(request.old_password)
    /\ flashed = <<"Invalid password.">>

\* The view looked at the token of the request and the token was refused.
TokenRejected ==
    \/ /\ Serving("confirm") /\ is_authenticated
       /\ ~users[current_user].confirmed
       /\ ~User_confirm(current_user, request'.token)
    \/ /\ Serving("password_reset") /\ ~is_authenticated
       /\ validate_on_submit(request')
       /\ ~User_reset_password(request'.token)
    \/ /\ Serving("change_email") /\ is_authenticated
       /\ ~User_change_email(current_user, request'.token)

\* C9 as stated: in confirm, password_reset and change_email a refused token
\* is answered with a flashed message and a redirect, and nothing persisted
\* changes.
C9_TokenFailureAsStated ==
    [][TokenRejected =>
        /\ flashed' # <<>>
        /\ resp'.status = "redirect"
        /\ UNCHANGED db]_vars

\* C9, amended: a refused token changes nothing persisted and is answered
\* with the redirect home; confirm and change_email flash their error
\* message, password_reset flashes nothing.
C9_TokenFailure ==
    [][TokenRejected =>
        /\ resp' = RedirectHome
        /\ UNCHANGED db
        /\ flashed' =
              IF Serving("confirm")
              THEN <<"The confirmation link is invalid or has expired.">>
              ELSE IF Serving("change_email")
              THEN <<"Invalid request.">>
              ELSE <<>>]_vars

\* C9 witness: an anonymous caller's password_reset with a refused token,
\* while the user the token names exists.
C9_Witness ==
    /\ request.endpoint = AuthEndpoint("password_reset")
    /\ validate_on_submit(request)
    /\ ~is_authenticated
    /\ request.token.id \in DOMAIN users
    /\ resp = RedirectHome
    /\ flashed = <<>>

\* C10 as stated: every call of login records login_time in the session.
C10_LoginTimeAlways ==
    [][Serving("login") => session'.login_time = <<now>>]_vars

\* C10, amended: login records login_time exactly when it falls through to
\* the form (a GET, an invalid POST or a failed attempt of an anonymous
\* caller); a successful login and a call by an authenticated caller return
\* their redirect first and leave login_time as it was.
C10_LoginTime ==
    [][Serving("login") =>
        session'.login_time =
            IF \/ is_authenticated
               \/ /\ validate_on_submit(request')
                  /\ \E u \in DOMAIN users :
                        /\ users[u].email = request'.email
                        /\ users[u].password_hash = Hash(request'.password)
            THEN session.login_time
            ELSE <<now>>]_vars

\* C10 witness: the form was rendered and the time of that is in the session.
C10_Witness ==
    /\ request.endpoint = AuthEndpoint("login")
    /\ resp = render_template("auth/login.html")
    /\ now > 0
    /\ session.login_time = <<now>>
====
